---- MODULE Spec2Model ----
(***************************************************************************)
(* Model of the SEO audit API (backend/app/main.py): the signal extractor, *)
(* the scorer and recommender, and the three request handlers running on   *)
(* the single asyncio event loop of the server.                            *)
(***************************************************************************)
EXTENDS Integers, Sequences, FiniteSets, TLC

VARIABLES
    \* scorer / recommender pipeline (one Page Signals record at a time)
    data, recommendations, score, stage,
    \* signal extractor (one document at a time)
    html, base_url, seo_data, parse_stage,
    \* server: per-request coroutine state and the event-loop thread
    pc, kind, target, fetched, ip_address, parsed, resp, running

vars == <<data, recommendations, score, stage,
          html, base_url, seo_data, parse_stage,
          pc, kind, target, fetched, ip_address, parsed, resp, running>>

scoreVars  == <<data, recommendations, score, stage>>
parseVars  == <<html, base_url, seo_data, parse_stage>>
serverVars == <<pc, kind, target, fetched, ip_address, parsed, resp, running>>

-----------------------------------------------------------------------------
(* Bounds of the model *)

MaxImages == 16
MaxH1 == 2
MaxInternal == 4
MaxDocLinks == 2
NumRequests == 2

-----------------------------------------------------------------------------
(* Python values: Optional[x] is None or Some(x); strings are TLA+ strings *)

None == <<>>
Some(v) == <<v>>

\* Python truthiness of an Optional[str]: None and "" are falsy
Truthy(o) == o # None /\ o[1] # ""

Min(a, b) == IF a < b THEN a ELSE b
Max(a, b) == IF a > b THEN a ELSE b

RECURSIVE Rep(_)
\* a string of n characters
Rep(n) == IF n = 0 THEN "" ELSE "a" \o Rep(n - 1)

\* str.startswith
startswith(s, p) == Len(s) >= Len(p) /\ SubSeq(s, 1, Len(p)) = p

\* the substring test "p in s"
contains(p, s) ==
    \E i \in 1..(Len(s) - Len(p) + 1) : SubSeq(s, i, i + Len(p) - 1) = p

\* index of the first character of s at or after position i that lies in cs,
\* Len(s) + 1 when there is none
RECURSIVE FindAny(_, _, _)
FindAny(s, cs, i) ==
    IF i > Len(s) THEN Len(s) + 1
    ELSE IF SubSeq(s, i, i) \in cs THEN i
    ELSE FindAny(s, cs, i + 1)

\* str.strip() for the one whitespace character the documents use
RECURSIVE strip(_)
strip(s) ==
    IF Len(s) = 0 THEN s
    ELSE IF SubSeq(s, 1, 1) = " " THEN strip(SubSeq(s, 2, Len(s)))
    ELSE IF SubSeq(s, Len(s), Len(s)) = " " THEN strip(SubSeq(s, 1, Len(s) - 1))
    ELSE s

\* urlparse(url).netloc for a url of the form scheme://netloc[/path][?query][#frag];
\* "" when the url has no "//" authority part
netloc(url) ==
    LET c == FindAny(url, {":"}, 1)
    IN  IF c + 2 <= Len(url) /\ SubSeq(url, c, c + 2) = "://"
        THEN SubSeq(url, c + 3, FindAny(url, {"/", "?", "#"}, c + 3) - 1)
        ELSE ""

-----------------------------------------------------------------------------
(* Signal extractor: parse_seo_elements                                     *)
(* A document is the tree BeautifulSoup hands back, reduced to the elements *)
(* the extractor looks up: the text of the first <title>, the first         *)
(* <meta name="description"> tag, the h1/h2/h3 texts in document order, the *)
(* alt attribute of every <img>, the href of every <a href>, and the length *)
(* of the markup.                                                           *)

RECURSIVE link_loop(_, _, _, _)
\* the for-loop over links: classifies the hrefs left to visit
link_loop(links, base_domain, internal_links, external_links) ==
    IF links = <<>>
    THEN [internal_links |-> internal_links, external_links |-> external_links]
    ELSE LET href == Head(links)
         IN  IF startswith(href, "http")
             THEN IF contains(base_domain, href)
                  THEN link_loop(Tail(links), base_domain, internal_links + 1, external_links)
                  ELSE link_loop(Tail(links), base_domain, internal_links, external_links + 1)
             ELSE IF startswith(href, "/") \/ ~startswith(href, "#")
                  THEN link_loop(Tail(links), base_domain, internal_links + 1, external_links)
                  ELSE link_loop(Tail(links), base_domain, internal_links, external_links)

\* get_text(strip=True) of every heading of one level
heading_texts(hs) == [i \in 1..Len(hs) |-> strip(hs[i])]

parse_seo_elements(doc, url) ==
    LET base_domain == netloc(url)
        title == IF doc.title # None THEN Some(strip(doc.title[1])) ELSE None
        meta_description == IF doc.meta_desc # None THEN doc.meta_desc[1].content ELSE None
        headings == [h1 |-> heading_texts(doc.h1),
                     h2 |-> heading_texts(doc.h2),
                     h3 |-> heading_texts(doc.h3)]
        images_without_alt == Cardinality({i \in 1..Len(doc.imgs) : ~Truthy(doc.imgs[i])})
        counts == link_loop(doc.links, base_domain, 0, 0)
        has_ssl == startswith(url, "https")
    IN  [title |-> title,
         meta_description |-> meta_description,
         headings |-> headings,
         images_without_alt |-> images_without_alt,
         internal_links |-> counts.internal_links,
         external_links |-> counts.external_links,
         has_ssl |-> has_ssl]

-----------------------------------------------------------------------------
(* Recommender: generate_recommendations *)

TitleMaxLen == 60
TitleMinLen == 30
MetaMaxLen == 160
MinInternalLinks == 3

MsgTitleMissing == "Missing page title - Add a descriptive <title> tag"
MsgTitleLong    == "Title too long (>60 chars) - May be truncated in search results"
MsgTitleShort   == "Title too short - Consider adding more descriptive keywords"
MsgMetaMissing  == "Missing meta description - Add a compelling meta description"
MsgMetaLong     == "Meta description too long (>160 chars)"
MsgH1Missing    == "Missing H1 tag - Add one main H1 heading"
MsgH1Multiple   == "Multiple H1 tags - Consider using only one H1 per page"
MsgImages       == "images missing alt text - Add descriptive alt attributes"
MsgNoSSL        == "No SSL certificate - Migrate to HTTPS for better rankings"
MsgLowLinks     == "Low internal linking - Add more internal links to improve navigation"
MsgPositive     == "Great job! No major SEO issues found."

\* a recommendation string; n is the number formatted into the string (0 when none)
Rec(msg) == [msg |-> msg, n |-> 0]
RecImages(n) == [msg |-> MsgImages, n |-> n]

\* the if/elif chain on the title
title_rule(d) ==
    IF ~Truthy(d.title) THEN <<Rec(MsgTitleMissing)>>
    ELSE IF Len(d.title[1]) > TitleMaxLen THEN <<Rec(MsgTitleLong)>>
    ELSE IF Len(d.title[1]) < TitleMinLen THEN <<Rec(MsgTitleShort)>>
    ELSE <<>>

\* the if/elif chain on the meta description
meta_rule(d) ==
    IF ~Truthy(d.meta_description) THEN <<Rec(MsgMetaMissing)>>
    ELSE IF Len(d.meta_description[1]) > MetaMaxLen THEN <<Rec(MsgMetaLong)>>
    ELSE <<>>

\* the if/elif chain on h1_count
h1_rule(d) ==
    LET h1_count == Len(d.headings.h1)
    IN  IF h1_count = 0 THEN <<Rec(MsgH1Missing)>>
        ELSE IF h1_count > 1 THEN <<Rec(MsgH1Multiple)>>
        ELSE <<>>

images_rule(d) ==
    IF d.images_without_alt > 0 THEN <<RecImages(d.images_without_alt)>> ELSE <<>>

ssl_rule(d) == IF ~d.has_ssl THEN <<Rec(MsgNoSSL)>> ELSE <<>>

links_rule(d) ==
    IF d.internal_links < MinInternalLinks THEN <<Rec(MsgLowLinks)>> ELSE <<>>

\* variant: the fallback to the positive message is left out
generate_recommendations_no_fallback(d) ==
    title_rule(d) \o meta_rule(d) \o h1_rule(d) \o images_rule(d) \o ssl_rule(d) \o links_rule(d)

\* variant: the SSL rule is evaluated before the images rule
generate_recommendations_ssl_first(d) ==
    LET found == title_rule(d) \o meta_rule(d) \o h1_rule(d)
                     \o ssl_rule(d) \o images_rule(d) \o links_rule(d)
    IN  IF found = <<>> THEN <<Rec(MsgPositive)>> ELSE found

generate_recommendations(d) ==
    LET found == title_rule(d) \o meta_rule(d) \o h1_rule(d)
                     \o images_rule(d) \o ssl_rule(d) \o links_rule(d)
    IN  IF found = <<>> THEN <<Rec(MsgPositive)>> ELSE found

-----------------------------------------------------------------------------
(* Scorer: calculate_seo_score *)

\* the penalties of the scorer other than the title and the images penalty
other_penalties(d) ==
    (IF ~Truthy(d.meta_description) THEN 10 ELSE 0)
    + (IF Len(d.headings.h1) # 1 THEN 10 ELSE 0)
    + (IF ~d.has_ssl THEN 20 ELSE 0)
    + (IF d.internal_links < MinInternalLinks THEN 5 ELSE 0)

\* variant: the title penalty is added instead of subtracted
calculate_seo_score_sign(d) ==
    Max(0, 100 + (IF ~Truthy(d.title) THEN 15 ELSE 0)
               - Min(d.images_without_alt * 2, 20) - other_penalties(d))

\* variant: the title penalty is 10
calculate_seo_score_title10(d) ==
    Max(0, 100 - (IF ~Truthy(d.title) THEN 10 ELSE 0)
               - Min(d.images_without_alt * 2, 20) - other_penalties(d))

\* variant: the images penalty has no cap
calculate_seo_score_uncapped(d) ==
    Max(0, 100 - (IF ~Truthy(d.title) THEN 15 ELSE 0)
               - d.images_without_alt * 2 - other_penalties(d))

\* variant: the internal-links penalty applies up to and including the threshold
calculate_seo_score_links_le(d) ==
    Max(0, 100 - (IF ~Truthy(d.title) THEN 15 ELSE 0)
               - Min(d.images_without_alt * 2, 20)
               - (other_penalties(d)
                  + (IF d.internal_links = MinInternalLinks THEN 5 ELSE 0)))

calculate_seo_score(d) ==
    LET s0 == 100
        s1 == IF ~Truthy(d.title) THEN s0 - 15 ELSE s0
        s2 == IF ~Truthy(d.meta_description) THEN s1 - 10 ELSE s1
        s3 == IF Len(d.headings.h1) # 1 THEN s2 - 10 ELSE s2
        s4 == IF d.images_without_alt > 0
              THEN s3 - Min(d.images_without_alt * 2, 20) ELSE s3
        s5 == IF ~d.has_ssl THEN s4 - 20 ELSE s4
        s6 == IF d.internal_links < MinInternalLinks THEN s5 - 5 ELSE s5
    IN  Max(0, s6)

-----------------------------------------------------------------------------
(* Page Signals records the scorer and recommender are applied to *)

TitleValues ==
    {None} \cup {Some(Rep(n)) : n \in {0, TitleMinLen - 1, TitleMinLen, TitleMaxLen, TitleMaxLen + 1}}

MetaValues ==
    {None} \cup {Some(Rep(n)) : n \in {0, 1, MetaMaxLen, MetaMaxLen + 1}}

H1Lists == {[i \in 1..n |-> "Heading"] : n \in 0..MaxH1}

PageSignals ==
    [title : TitleValues,
     meta_description : MetaValues,
     headings : [h1 : H1Lists, h2 : {<<>>}, h3 : {<<>>}],
     images_without_alt : 0..MaxImages,
     internal_links : 0..MaxInternal,
     external_links : {0},
     has_ssl : BOOLEAN]

NoSignals ==
    [title |-> None, meta_description |-> None,
     headings |-> [h1 |-> <<>>, h2 |-> <<>>, h3 |-> <<>>],
     images_without_alt |-> 0, internal_links |-> 0, external_links |-> 0,
     has_ssl |-> FALSE]

NoDoc ==
    [title |-> None, meta_desc |-> None, h1 |-> <<>>, h2 |-> <<>>, h3 |-> <<>>,
     imgs |-> <<>>, links |-> <<>>, length |-> 0]

\* the values the variables of the other parts keep while one part runs
ScoreIdle ==
    /\ data = NoSignals /\ recommendations = <<>> /\ score = -1 /\ stage = "off"
ParseIdle ==
    /\ html = NoDoc /\ base_url = "" /\ seo_data = NoSignals /\ parse_stage = "off"
ServerIdle ==
    /\ pc = <<>> /\ kind = <<>> /\ target = <<>> /\ fetched = <<>>
    /\ ip_address = <<>> /\ parsed = <<>> /\ resp = <<>> /\ running = 0

\* analyze_seo, line 219: recommendations = generate_recommendations(seo_data)
GenerateRecommendations ==
    /\ stage = "parsed"
    /\ recommendations' = generate_recommendations(data)
    /\ stage' = "recommended"
    /\ UNCHANGED <<data, score>>
    /\ UNCHANGED <<parseVars, serverVars>>

\* analyze_seo, line 220: score = calculate_seo_score(seo_data)
CalculateSeoScore ==
    /\ stage = "recommended"
    /\ score' = calculate_seo_score(data)
    /\ stage' = "scored"
    /\ UNCHANGED <<data, recommendations>>
    /\ UNCHANGED <<parseVars, serverVars>>

InitScore ==
    /\ data \in PageSignals
    /\ recommendations = <<>>
    /\ score = -1
    /\ stage = "parsed"
    /\ ParseIdle /\ ServerIdle

NextScore == GenerateRecommendations \/ CalculateSeoScore

SpecScore == InitScore /\ [][NextScore]_vars

-----------------------------------------------------------------------------
(* The extractor applied to one document and base URL *)

Hrefs ==
    {"http://a.co/x", "https://a.co", "https://b.co", "https://b.co/?r=a.co",
     "/about", "page.html", "#top", ""}

BaseUrls == {"https://a.co/", "http://a.co/p", "https://b.co/"}

LinkLists == UNION {[1..n -> Hrefs] : n \in 0..MaxDocLinks}

ParseDocs ==
    [title : {None, Some(" Home ")},
     meta_desc : {None, Some([content |-> None]), Some([content |-> Some("About us")])},
     h1 : {<<>>, <<" Welcome ">>},
     h2 : {<<>>},
     h3 : {<<>>},
     imgs : {<<>>, <<None, Some(""), Some("logo")>>},
     links : LinkLists,
     length : {1200}]

\* seo_data = parse_seo_elements(html, url_str)
ParseSeoElements ==
    /\ parse_stage = "fetched"
    /\ seo_data' = parse_seo_elements(html, base_url)
    /\ parse_stage' = "parsed"
    /\ UNCHANGED <<html, base_url>>
    /\ UNCHANGED <<scoreVars, serverVars>>

InitParse ==
    /\ html \in ParseDocs
    /\ base_url \in BaseUrls
    /\ seo_data = NoSignals
    /\ parse_stage = "fetched"
    /\ ScoreIdle /\ ServerIdle

NextParse == ParseSeoElements

SpecParse == InitParse /\ [][NextParse]_vars

-----------------------------------------------------------------------------
(* The server: request handlers as coroutines on one event-loop thread.     *)
(* running is the request whose handler occupies the thread (0: the thread  *)
(* is free). A handler that awaits gives the thread back; a handler that    *)
(* makes a synchronous call keeps it until the call returns.                *)

Reqs == 1..NumRequests

Urls == {"https://a.co/", "http://a.co/"}
Domains == {"a.co", "https://a.co/x"}

GoodPage ==
    [title |-> Some(Rep(TitleMinLen)),
     meta_desc |-> Some([content |-> Some("About us")]),
     h1 |-> <<"Welcome">>, h2 |-> <<>>, h3 |-> <<>>,
     imgs |-> <<Some("logo")>>,
     links |-> <<"/about", "/contact", "https://a.co/blog", "https://b.co">>,
     length |-> 1200]

ErrorPage ==
    [title |-> Some("Not Found"), meta_desc |-> None,
     h1 |-> <<>>, h2 |-> <<>>, h3 |-> <<>>,
     imgs |-> <<None>>, links |-> <<"/">>, length |-> 300]

\* what the network makes of one GET: an exception (timeout after 10 s, DNS,
\* connect or TLS failure) or a response with a status and a body
NetOutcomes ==
    [ok : {FALSE}, error : {"timeout", "network"}, status : {0}, html : {NoDoc}]
    \cup [ok : {TRUE}, error : {""}, status : {200, 404}, html : {GoodPage, ErrorPage}]

NoFetch == [ok |-> FALSE, error |-> "", status |-> 0, html |-> NoDoc]

\* raise HTTPException(status_code, detail)
HTTPException(status_code, detail) ==
    [code |-> status_code, body |-> "error", detail |-> detail, payload |-> None]

NoResponse == [code |-> 0, body |-> "none", detail |-> "", payload |-> None]

\* returns (html, response.status, load_time), or raises HTTPException(400)
\* when the request raises
fetch_page_content(url, net) ==
    IF net.ok
    THEN [raised |-> FALSE, html |-> net.html, status |-> net.status]
    ELSE [raised |-> TRUE, html |-> NoDoc, status |-> 0]

\* variant: the handler does not look at the status code of the fetch
analyze_seo_unchecked(url_str, net) ==
    LET f == fetch_page_content(url_str, net)
    IN  IF f.raised
        THEN [resp |-> HTTPException(400, "Failed to fetch URL"), seo_data |-> None]
        ELSE LET sd == parse_seo_elements(f.html, url_str)
             IN  [resp |-> [code |-> 200, body |-> "AuditReport", detail |-> "",
                            payload |-> Some([url |-> url_str,
                                              score |-> calculate_seo_score(sd),
                                              recommendations |-> generate_recommendations(sd)])],
                  seo_data |-> Some(sd)]

\* the handler of POST /api/seo/analyze from the return of the fetch on:
\* the response and the seo_data local (None when the extractor did not run)
analyze_seo(url_str, net) ==
    LET f == fetch_page_content(url_str, net)
    IN  IF f.raised
        THEN [resp |-> HTTPException(400, "Failed to fetch URL"), seo_data |-> None]
        ELSE IF f.status # 200
        THEN [resp |-> HTTPException(400, "URL returned status code"), seo_data |-> None]
        ELSE LET sd == parse_seo_elements(f.html, url_str)
                 recs == generate_recommendations(sd)
                 sc == calculate_seo_score(sd)
             IN  [resp |-> [code |-> 200, body |-> "AuditReport", detail |-> "",
                            payload |-> Some([url |-> url_str,
                                              score |-> sc,
                                              title |-> sd.title,
                                              meta_description |-> sd.meta_description,
                                              headings |-> sd.headings,
                                              images_without_alt |-> sd.images_without_alt,
                                              internal_links |-> sd.internal_links,
                                              external_links |-> sd.external_links,
                                              has_ssl |-> sd.has_ssl,
                                              recommendations |-> recs])],
                  seo_data |-> Some(sd)]

\* the handler of POST /api/traffic/estimate from the return of the fetch on.
\* The visits product is evaluated in floating point by the code; it equals the
\* integer product for the documents of the model (pages_estimated = 1).
estimate_traffic(url_str, net) ==
    LET f == fetch_page_content(url_str, net)
    IN  IF f.raised
        THEN [resp |-> HTTPException(500, "Traffic estimation failed"), seo_data |-> None]
        ELSE LET sd == parse_seo_elements(f.html, url_str)
                 domain_age_factor == 50
                 content_length == f.html.length
                 pages_estimated == Max(1, content_length \div 50000)
                 seo_score == calculate_seo_score(sd)
                 estimated_monthly_visits ==
                     Max(100, ((pages_estimated * 100 * seo_score) \div 100)
                                  * (domain_age_factor \div 50))
                 estimated_page_views == (estimated_monthly_visits * 3) \div 2
             IN  [resp |-> [code |-> 200, body |-> "TrafficEstimate", detail |-> "",
                            payload |-> Some([url |-> url_str,
                                              estimated_monthly_visits |-> estimated_monthly_visits,
                                              estimated_monthly_pageviews |-> estimated_page_views,
                                              estimated_pages |-> pages_estimated,
                                              seo_score |-> seo_score,
                                              has_title |-> Truthy(sd.title),
                                              has_meta_description |-> Truthy(sd.meta_description),
                                              heading_structure |->
                                                  IF Len(sd.headings.h1) = 1
                                                  THEN "Good" ELSE "Needs improvement"])],
                  seo_data |-> Some(sd)]

RECURSIVE remove(_, _)
\* s.replace(old, '')
remove(s, old) ==
    IF Len(s) < Len(old) THEN s
    ELSE IF SubSeq(s, 1, Len(old)) = old THEN remove(SubSeq(s, Len(old) + 1, Len(s)), old)
    ELSE SubSeq(s, 1, 1) \o remove(SubSeq(s, 2, Len(s)), old)

\* request.domain.replace('https://', '').replace('http://', '').split('/')[0]
geo_domain(domain) ==
    LET d == remove(remove(domain, "https://"), "http://")
    IN  SubSeq(d, 1, FindAny(d, {"/"}, 1) - 1)

\* socket.gethostbyname: the address, socket.gaierror, or another exception
DnsOutcomes == {"203.0.113.7", "gaierror", "error"}

\* requests.get(...).json(): the geo record, or an exception (timeout after 5 s,
\* connection error, a body that is not JSON)
GeoOutcomes ==
    [ok : {TRUE}, country : {Some("NL"), None}] \cup [ok : {FALSE}, country : {None}]

\* async def analyze_seo / estimate_traffic up to `await` in fetch_page_content:
\* the request is sent and the coroutine suspends, giving the thread back
AcceptFetch(r, k, url) ==
    /\ pc[r] = "idle"
    /\ running = 0
    /\ kind' = [kind EXCEPT ![r] = k]
    /\ target' = [target EXCEPT ![r] = url]
    /\ pc' = [pc EXCEPT ![r] = "fetch"]
    /\ UNCHANGED <<fetched, ip_address, parsed, resp, running>>
    /\ UNCHANGED <<scoreVars, parseVars>>

\* the fetch of /api/seo/analyze completes and the handler runs to its response
SeoFetchReturn(r, net) ==
    /\ pc[r] = "fetch" /\ kind[r] = "seo"
    /\ running = 0
    /\ LET out == analyze_seo(target[r], net)
       IN  /\ resp' = [resp EXCEPT ![r] = out.resp]
           /\ parsed' = [parsed EXCEPT ![r] = out.seo_data]
    /\ fetched' = [fetched EXCEPT ![r] = net]
    /\ pc' = [pc EXCEPT ![r] = "done"]
    /\ UNCHANGED <<kind, target, ip_address, running>>
    /\ UNCHANGED <<scoreVars, parseVars>>

\* the fetch of /api/traffic/estimate completes and the handler runs to its response
TrafficFetchReturn(r, net) ==
    /\ pc[r] = "fetch" /\ kind[r] = "traffic"
    /\ running = 0
    /\ LET out == estimate_traffic(target[r], net)
       IN  /\ resp' = [resp EXCEPT ![r] = out.resp]
           /\ parsed' = [parsed EXCEPT ![r] = out.seo_data]
    /\ fetched' = [fetched EXCEPT ![r] = net]
    /\ pc' = [pc EXCEPT ![r] = "done"]
    /\ UNCHANGED <<kind, target, ip_address, running>>
    /\ UNCHANGED <<scoreVars, parseVars>>

\* async def analyze_geo up to socket.gethostbyname(domain): a synchronous call,
\* the handler keeps the thread while the resolver works
AcceptGeo(r, domain) ==
    /\ pc[r] = "idle"
    /\ running = 0
    /\ kind' = [kind EXCEPT ![r] = "geo"]
    /\ target' = [target EXCEPT ![r] = domain]
    /\ pc' = [pc EXCEPT ![r] = "dns"]
    /\ running' = r
    /\ UNCHANGED <<fetched, ip_address, parsed, resp>>
    /\ UNCHANGED <<scoreVars, parseVars>>

\* gethostbyname returns or raises; on an address the handler goes straight into
\* requests.get(..., timeout=5), again synchronous
GeoResolved(r, dns) ==
    /\ pc[r] = "dns"
    /\ running = r
    /\ IF dns = "gaierror"
       THEN /\ resp' = [resp EXCEPT ![r] = HTTPException(400, "Could not resolve domain")]
            /\ pc' = [pc EXCEPT ![r] = "done"]
            /\ running' = 0
            /\ UNCHANGED ip_address
       ELSE IF dns = "error"
       THEN /\ resp' = [resp EXCEPT ![r] = HTTPException(500, "error")]
            /\ pc' = [pc EXCEPT ![r] = "done"]
            /\ running' = 0
            /\ UNCHANGED ip_address
       ELSE /\ ip_address' = [ip_address EXCEPT ![r] = dns]
            /\ pc' = [pc EXCEPT ![r] = "geo_http"]
            /\ UNCHANGED <<resp, running>>
    /\ UNCHANGED <<kind, target, fetched, parsed>>
    /\ UNCHANGED <<scoreVars, parseVars>>

\* requests.get returns or raises and the handler runs to its response
GeoLookupReturn(r, geo) ==
    /\ pc[r] = "geo_http"
    /\ running = r
    /\ resp' = [resp EXCEPT ![r] =
                   IF geo.ok
                   THEN [code |-> 200, body |-> "GeoReport", detail |-> "",
                         payload |-> Some([domain |-> geo_domain(target[r]),
                                           ip_address |-> ip_address[r],
                                           country |-> geo.country,
                                           status |-> "success"])]
                   ELSE HTTPException(500, "error")]
    /\ pc' = [pc EXCEPT ![r] = "done"]
    /\ running' = 0
    /\ UNCHANGED <<kind, target, fetched, ip_address, parsed>>
    /\ UNCHANGED <<scoreVars, parseVars>>

Init ==
    /\ pc = [r \in Reqs |-> "idle"]
    /\ kind = [r \in Reqs |-> "none"]
    /\ target = [r \in Reqs |-> ""]
    /\ fetched = [r \in Reqs |-> NoFetch]
    /\ ip_address = [r \in Reqs |-> ""]
    /\ parsed = [r \in Reqs |-> None]
    /\ resp = [r \in Reqs |-> NoResponse]
    /\ running = 0
    /\ ScoreIdle /\ ParseIdle

Next ==
    \/ \E r \in Reqs, k \in {"seo", "traffic"}, url \in Urls : AcceptFetch(r, k, url)
    \/ \E r \in Reqs, net \in NetOutcomes : SeoFetchReturn(r, net)
    \/ \E r \in Reqs, net \in NetOutcomes : TrafficFetchReturn(r, net)
    \/ \E r \in Reqs, domain \in Domains : AcceptGeo(r, domain)
    \/ \E r \in Reqs, dns \in DnsOutcomes : GeoResolved(r, dns)
    \/ \E r \in Reqs, geo \in GeoOutcomes : GeoLookupReturn(r, geo)

Spec == Init /\ [][Next]_vars

-----------------------------------------------------------------------------
(* Properties of the scorer and recommender, checked under SpecScore *)

\* C2: for every combination of Page Signals the score is an integer in 0..100,
\* however many penalties apply at once.
C2_ScoreInRange ==
    stage = "scored" => score \in 0..100

\* every penalty of the table applies to the scored record
C2_AllPenaltiesStack ==
    /\ stage = "scored"
    /\ ~Truthy(data.title) /\ ~Truthy(data.meta_description)
    /\ Len(data.headings.h1) # 1 /\ data.images_without_alt >= 10
    /\ ~data.has_ssl /\ data.internal_links < MinInternalLinks
    /\ score = 20

\* C3: a record without a title scores exactly 15 less than the record that
\* differs from it only by having a non-empty title, whatever the other signals.
C3_TitlePenaltyExact ==
    (stage = "scored" /\ ~Truthy(data.title)) =>
        \A t \in {v \in TitleValues : Truthy(v)} :
            calculate_seo_score([data EXCEPT !.title = t]) - score = 15

\* a title-less record with every other penalty applied has been scored
C3_TitlelessScored ==
    /\ stage = "scored"
    /\ data.title = None
    /\ ~Truthy(data.meta_description) /\ Len(data.headings.h1) = 0
    /\ data.images_without_alt = MaxImages /\ ~data.has_ssl
    /\ data.internal_links = 0
    /\ calculate_seo_score([data EXCEPT !.title = Some(Rep(TitleMinLen))]) = 35

\* the penalty n images without alt cost the record being scored
AltPenalty(n) ==
    calculate_seo_score([data EXCEPT !.images_without_alt = 0])
        - calculate_seo_score([data EXCEPT !.images_without_alt = n])

\* C4: the penalty for n images without alt is min(2n, 20), all other signals
\* fixed: 0 for 0, 10 for 5, 20 for 15, never decreasing in n, never above 20.
C4_AltPenaltyCapped ==
    stage = "scored" =>
        LET n == data.images_without_alt
            penalty == calculate_seo_score([data EXCEPT !.images_without_alt = 0]) - score
        IN  /\ penalty = Min(2 * n, 20)
            /\ penalty <= 20
            /\ (n = 0 => penalty = 0)
            /\ (n = 5 => penalty = 10)
            /\ (n = 15 => penalty = 20)
            /\ \A m \in 0..n : AltPenalty(m) <= penalty

\* a record with 15 images without alt has been scored at the capped penalty
C4_FifteenImagesScored ==
    /\ stage = "scored"
    /\ data.images_without_alt = 15
    /\ Truthy(data.title) /\ Truthy(data.meta_description)
    /\ Len(data.headings.h1) = 1 /\ data.has_ssl
    /\ data.internal_links >= MinInternalLinks
    /\ score = 80

\* some rule of the recommender fires on record d
AnyRuleFires(d) ==
    \/ ~Truthy(d.title)
    \/ Len(d.title[1]) > TitleMaxLen
    \/ Len(d.title[1]) < TitleMinLen
    \/ ~Truthy(d.meta_description)
    \/ Len(d.meta_description[1]) > MetaMaxLen
    \/ Len(d.headings.h1) = 0
    \/ Len(d.headings.h1) > 1
    \/ d.images_without_alt > 0
    \/ ~d.has_ssl
    \/ d.internal_links < MinInternalLinks

HasPositive(recs) == \E i \in 1..Len(recs) : recs[i].msg = MsgPositive

\* C5: the recommendation list is never empty; it is exactly the single positive
\* message when no rule fires, and the positive message never appears together
\* with another recommendation.
C5_RecommendationsNonEmpty ==
    stage \in {"recommended", "scored"} =>
        /\ Len(recommendations) >= 1
        /\ (~AnyRuleFires(data) => recommendations = <<Rec(MsgPositive)>>)
        /\ (HasPositive(recommendations) => Len(recommendations) = 1)
        /\ (AnyRuleFires(data) => ~HasPositive(recommendations))

\* a clean record has received the single positive message
C5_PositiveOnly ==
    /\ stage = "recommended"
    /\ ~AnyRuleFires(data)
    /\ recommendations = <<Rec(MsgPositive)>>

\* position of a recommendation's rule group in the fixed rule order
RuleGroup(msg) ==
    CASE msg \in {MsgTitleMissing, MsgTitleLong, MsgTitleShort} -> 1
      [] msg \in {MsgMetaMissing, MsgMetaLong} -> 2
      [] msg \in {MsgH1Missing, MsgH1Multiple} -> 3
      [] msg = MsgImages -> 4
      [] msg = MsgNoSSL -> 5
      [] msg = MsgLowLinks -> 6
      [] OTHER -> 0

\* C8: the recommendations of every list appear in the fixed rule order title,
\* meta description, h1, images, SSL, internal linking, with at most one
\* recommendation per group.
C8_RuleOrderFixed ==
    stage \in {"recommended", "scored"} =>
        \A i, j \in 1..Len(recommendations) :
            (i < j /\ ~HasPositive(recommendations)) =>
                /\ RuleGroup(recommendations[i].msg) \in 1..6
                /\ RuleGroup(recommendations[j].msg) \in 1..6
                /\ RuleGroup(recommendations[i].msg) < RuleGroup(recommendations[j].msg)

\* a list with one recommendation of every group has been produced
C8_AllGroupsListed ==
    /\ stage = "recommended"
    /\ Len(recommendations) = 6
    /\ recommendations[1].msg = MsgTitleLong
    /\ recommendations[4] = RecImages(3)
    /\ recommendations[6].msg = MsgLowLinks

\* C10: when the recommender returns exactly the positive message the score is
\* 100; a score below 100 comes with a recommendation other than the positive one.
C10_CleanPageScores100 ==
    stage = "scored" =>
        /\ (recommendations = <<Rec(MsgPositive)>> => score = 100)
        /\ (score < 100 => \E i \in 1..Len(recommendations) :
                               recommendations[i].msg # MsgPositive)

\* a clean record, its title at the upper length limit, got the positive message
\* and the score 100
C10_CleanScored ==
    /\ stage = "scored"
    /\ score = 100
    /\ recommendations = <<Rec(MsgPositive)>>
    /\ Len(data.title[1]) = TitleMaxLen

-----------------------------------------------------------------------------
(* Properties of the extractor, checked under SpecParse *)

IsAbsoluteUrl(href) == startswith(href, "http://") \/ startswith(href, "https://")

\* the classification the link rule states, for a page whose host is H
LinkIsInternal(href, H) ==
    \/ IsAbsoluteUrl(href) /\ netloc(href) = H
    \/ ~IsAbsoluteUrl(href) /\ startswith(href, "/")
    \/ ~IsAbsoluteUrl(href) /\ ~startswith(href, "#")

LinkIsNeither(href) == ~IsAbsoluteUrl(href) /\ startswith(href, "#")

LinkIsExternal(href, H) == ~LinkIsInternal(href, H) /\ ~LinkIsNeither(href)

\* C6: a link counts as internal exactly when its href is an absolute URL on the
\* page's host, a root-relative path or a relative href that is not a bare
\* fragment; a bare fragment counts as neither; every other href, in particular
\* an absolute URL on another host, counts as external.
C6_LinkClassification ==
    parse_stage = "parsed" =>
        LET H == netloc(base_url)
            idx == 1..Len(html.links)
        IN  /\ seo_data.internal_links =
                   Cardinality({i \in idx : LinkIsInternal(html.links[i], H)})
            /\ seo_data.external_links =
                   Cardinality({i \in idx : LinkIsExternal(html.links[i], H)})

-----------------------------------------------------------------------------
(* Properties of the request handlers, checked under Spec *)

FetchedNon200(r) == fetched[r].ok /\ fetched[r].status # 200

\* C1: for /api/seo/analyze a fetch that fails or completes with a status other
\* than 200 ends in a 400 error response with no Audit Report, and an Audit
\* Report is returned only after a fetch that completed with status 200.
C1_FetchFailureIs400 ==
    \A r \in Reqs :
        (pc[r] = "done" /\ kind[r] = "seo") =>
            /\ (~fetched[r].ok \/ fetched[r].status # 200) =>
                   /\ resp[r].code = 400
                   /\ resp[r].body = "error"
                   /\ resp[r].payload = None
            /\ resp[r].body = "AuditReport" =>
                   (fetched[r].ok /\ fetched[r].status = 200)

\* one analysis ended in 400 after a timeout and another in 400 after a 404,
\* neither with a report
C1_TimeoutAnd404Rejected ==
    \E r, q \in Reqs :
        /\ pc[r] = "done" /\ kind[r] = "seo"
        /\ pc[q] = "done" /\ kind[q] = "seo"
        /\ fetched[r].error = "timeout" /\ resp[r].code = 400
        /\ fetched[q].ok /\ fetched[q].status = 404 /\ resp[q].code = 400
        /\ resp[r].payload = None /\ resp[q].payload = None

\* C7: a response whose status is not 200 fails with a client error for every
\* caller: neither /api/seo/analyze nor /api/traffic/estimate runs the
\* extractor and scorer on it or returns a success payload derived from it.
C7_Non200NeverAnalyzed ==
    \A r \in Reqs :
        (pc[r] = "done" /\ kind[r] \in {"seo", "traffic"} /\ FetchedNon200(r)) =>
            /\ parsed[r] = None
            /\ resp[r].code \in 400..499
            /\ resp[r].payload = None

Waiting(r) == pc[r] \in {"fetch", "dns", "geo_http"}

\* the thread is available to the handler of request q
CanRun(q) == running = 0 \/ running = q

\* C9: while a request waits on its outbound network call (page fetch, DNS
\* resolution, geo-IP lookup), every other request can still be accepted and
\* run: the wait does not hold the event-loop thread.
C9_OutboundWaitNonBlocking ==
    \A r \in Reqs : Waiting(r) => \A q \in Reqs \ {r} : CanRun(q)

====
